---- MODULE Spec2Model ----
(***************************************************************************)
(* Model of the handshake program: peer.Handshake / peer.handshake (the    *)
(* retry loop and one attempt), message.WriteMessageWithEncodingN as far   *)
(* as the stream sees it, the frame skip of checker.ReadMessageWithEncodingN*)
(* and checker.WaitToFinishNegotiation with its background reader.         *)
(*                                                                         *)
(* Strings of the program that the code inspects character by character    *)
(* (the peer address) are tuples of one-character strings.                 *)
(***************************************************************************)
EXTENDS Naturals, Integers, Sequences, FiniteSets, TLC

VARIABLES
    peerAddress,      \* argument of Handshake: tuple of characters
    network,          \* argument of Handshake: "main" or "sim"
    protocolVersion,  \* argument of Handshake
    pc,               \* position of the calling goroutine (main / the test)
    i,                \* loop counter of Handshake
    err,              \* variable err of Handshake: cause of the last attempt, "nil" if none
    conn,             \* the stream of the attempt in progress / returned (index in conns), 0 = nil
    conns,            \* every stream a Dial has opened, in order: [open, log]
    dials,            \* number of calls of dialer.Dial
    attempts,         \* history: what each call of handshake returned as error ("nil" = success)
    result,           \* what Handshake returned: [done, conn, err, retries]
    inbox,            \* frames the peer has sent on the current stream and nobody has read yet
    connErr,          \* sticky state of the current stream's read side: "none", "EOF", "reset"
    sent,             \* number of frames the peer has sent on the current stream
    skipErr,          \* what the frame skip after Handshake returned ("none" before it)
    rpc,              \* position of the background reader of WaitToFinishNegotiation
    rval,             \* the read error the reader is about to send on the channel
    readHist,         \* history: what each readMessage of the reader returned
    retHist,          \* history: readHist at the moment WaitToFinishNegotiation returned
    wtfnRet,          \* what WaitToFinishNegotiation returned ("none" before it)
    cin,              \* the call of the wire codec under study: [op, ...], op "none" before it
    cout,             \* the bytes that call wrote to its writer
    cret,             \* the error that call returned ("none" before it)
    cval,             \* the value that call returned, for the calls that read
    freeList,         \* binarySerializer: the buffers on the free list, oldest first
    callers           \* the codec calls in progress that use the free list

vars == <<peerAddress, network, protocolVersion, pc, i, err, conn, conns, dials,
          attempts, result, inbox, connErr, sent, skipErr, rpc, rval, readHist,
          retHist, wtfnRet, cin, cout, cret, cval, freeList, callers>>

hsVars == <<i, err, conn, conns, dials, attempts, result>>
peerVars == <<inbox, connErr, sent>>
readerVars == <<skipErr, rpc, rval, readHist, retHist, wtfnRet>>
argVars == <<peerAddress, network, protocolVersion>>
codecVars == <<cin, cout, cret, cval, freeList, callers>>

-----------------------------------------------------------------------------
(* Bounds of the model *)

\* frames the peer sends on one stream
MaxFrames == 3

-----------------------------------------------------------------------------
(* Program constants *)

HandshakeRetries == 3

CommandSize == 12

CmdVersion == "version"
CmdVerAck == "verack"

DefaultUserAgent == "/btcwire:0.5.0/"

\* the protocol version and network of the mocked remote peer
ProtocolVersion == 70016
PeerNet == "sim"

-----------------------------------------------------------------------------
(* Characters and numbers *)

Digits == <<"0", "1", "2", "3", "4", "5", "6", "7", "8", "9">>

IsDigit(c) == \E k \in 1..10 : Digits[k] = c

DigitVal(c) == (CHOOSE k \in 1..10 : Digits[k] = c) - 1

\* number of consecutive digits of s from position p on
RECURSIVE Run(_, _)
Run(s, p) == IF p <= Len(s) /\ IsDigit(s[p]) THEN 1 + Run(s, p + 1) ELSE 0

\* decimal value of a tuple of digits
RECURSIVE NumVal(_)
NumVal(s) == IF s = <<>> THEN 0
             ELSE 10 * NumVal(SubSeq(s, 1, Len(s) - 1)) + DigitVal(s[Len(s)])

AllDigits(s) == \A k \in 1..Len(s) : IsDigit(s[k])

-----------------------------------------------------------------------------
(* Address validation: the regular expression of handshake                 *)
(*   ^\d{1,3}\.\d{1,3}\.\d{1,3}\.\d{1,3}:\d+$                              *)

\* \d{1,3} at position p followed by the literal sep: the position after sep, 0 = no match
MatchOctet(s, p, sep) ==
    IF p = 0 THEN 0
    ELSE LET r == Run(s, p) IN
         IF r >= 1 /\ r <= 3 /\ p + r <= Len(s) /\ s[p + r] = sep
         THEN p + r + 1 ELSE 0

MatchString(s) ==
    LET p1 == MatchOctet(s, 1, ".")
        p2 == MatchOctet(s, p1, ".")
        p3 == MatchOctet(s, p2, ".")
        p4 == MatchOctet(s, p3, ":")
    IN  /\ p4 # 0
        /\ Run(s, p4) >= 1
        /\ p4 + Run(s, p4) = Len(s) + 1

\* net.SplitHostPort for addresses without brackets: split at the last colon
LastColon(s) ==
    IF \E k \in 1..Len(s) : s[k] = ":"
    THEN CHOOSE k \in 1..Len(s) : s[k] = ":" /\ \A j \in (k + 1)..Len(s) : s[j] # ":"
    ELSE 0

SplitHostPort(s) ==
    LET c == LastColon(s) IN
    IF c = 0 THEN [host |-> <<>>, port |-> <<>>, err |-> "missing port in address"]
    ELSE IF \E k \in 1..(c - 1) : s[k] = ":"
         THEN [host |-> <<>>, port |-> <<>>, err |-> "too many colons in address"]
         ELSE [host |-> SubSeq(s, 1, c - 1), port |-> SubSeq(s, c + 1, Len(s)),
               err |-> "nil"]

\* strconv.ParseUint(port, 10, 16)
ParseUint16(s) ==
    IF s = <<>> \/ ~AllDigits(s) THEN [val |-> 0, err |-> "invalid syntax"]
    ELSE IF Len(s) > 5 \/ NumVal(s) > 65535 THEN [val |-> 65535, err |-> "value out of range"]
         ELSE [val |-> NumVal(s), err |-> "nil"]

\* the parts of a dotted host between the dots
RECURSIVE Fields(_, _)
Fields(s, sep) ==
    IF \E k \in 1..Len(s) : s[k] = sep
    THEN LET k == CHOOSE k \in 1..Len(s) : s[k] = sep /\ \A j \in 1..(k - 1) : s[j] # sep
         IN  <<SubSeq(s, 1, k - 1)>> \o Fields(SubSeq(s, k + 1, Len(s)), sep)
    ELSE <<s>>

\* net.ParseIP(ip) # nil for a dotted-decimal host
IsIPv4(host) ==
    LET f == Fields(host, ".") IN
    /\ Len(f) = 4
    /\ \A k \in 1..4 : /\ f[k] # <<>>
                       /\ AllDigits(f[k])
                       /\ Len(f[k]) <= 3
                       /\ (Len(f[k]) > 1 => f[k][1] # "0")
                       /\ NumVal(f[k]) <= 255

-----------------------------------------------------------------------------
(* The inputs *)

AddrGood    == <<"1", ".", "2", ".", "3", ".", "4", ":", "8", "0">>
AddrOctet   == <<"9", "9", "9", ".", "0", ".", "0", ".", "1", ":", "8", "0">>
AddrPort    == <<"1", ".", "2", ".", "3", ".", "4", ":", "9", "9", "9", "9", "9">>
AddrName    == <<"p", "e", "e", "r", ":", "8", "0">>
AddrNoPort  == <<"1", ".", "2", ".", "3", ".", "4">>
AddrTrail   == <<"1", ".", "2", ".", "3", ".", "4", ":", "8", "0", "x">>

Addresses == {AddrGood, AddrOctet, AddrPort, AddrName, AddrNoPort, AddrTrail}

Networks == {"main", "sim"}

ProtocolVersions == {ProtocolVersion, 123}

\* the remote peer accepts the version message only of its own network and
\* of an acceptable protocol version; otherwise it resets the connection
Mismatch == network # PeerNet \/ protocolVersion # ProtocolVersion

-----------------------------------------------------------------------------
(* The transport *)

\* what dialer.Dial("tcp", peerAddress) can return: it resolves the address
\* first (an invalid port or a host that is no IP literal and resolves to
\* nothing fails there), then connects within the 1 second timeout
DialOutcomes(addr) ==
    LET hp == SplitHostPort(addr) IN
    IF hp.err # "nil" THEN {hp.err}
    ELSE IF ParseUint16(hp.port).err # "nil" THEN {"invalid port"}
    ELSE IF ~IsIPv4(hp.host) THEN {"no such host", "i/o timeout"}
    ELSE {"nil", "connection refused", "i/o timeout"}

WriteErrors == {"write: i/o timeout", "write: broken pipe"}

Event(op, cmd, part) == [op |-> op, cmd |-> cmd, part |-> part]

NewConn == [open |-> TRUE, log |-> <<>>]

Close(cs, c) == [cs EXCEPT ![c].open = FALSE]

-----------------------------------------------------------------------------
(* message.WriteMessageWithEncodingN, as the stream sees it *)

\* number of bytes BtcEncode produces
BtcEncodeLen(cmd) ==
    IF cmd = CmdVersion
    THEN 4 + 8 + 8 + 26 + 26 + 8 + (1 + Len(DefaultUserAgent)) + 4
    ELSE 0

\* how the Write calls of one message can end: all succeed, or the header
\* write fails, or (when there is a payload) the payload write fails
WriteOutcomes(cmd) ==
    {[at |-> "none", err |-> "nil"]}
    \cup {[at |-> "hdr", err |-> e] : e \in WriteErrors}
    \cup (IF BtcEncodeLen(cmd) > 0
          THEN {[at |-> "payload", err |-> e] : e \in WriteErrors}
          ELSE {})

\* a variant that loses the error of the header write
WriteMessageIgnoringHeaderError(lg, cmd, w) ==
    IF Len(cmd) > CommandSize
    THEN [log |-> lg, err |-> "command is too long"]
    ELSE IF w.at = "hdr"
    THEN [log |-> lg, err |-> "nil"]
    ELSE IF BtcEncodeLen(cmd) > 0
    THEN IF w.at = "payload"
         THEN [log |-> Append(lg, Event("write", cmd, "hdr")), err |-> w.err]
         ELSE [log |-> lg \o <<Event("write", cmd, "hdr"), Event("write", cmd, "payload")>>,
               err |-> "nil"]
    ELSE [log |-> Append(lg, Event("write", cmd, "hdr")), err |-> "nil"]

\* a variant that loses the error of the payload write
WriteMessageLosingPayloadError(lg, cmd, w) ==
    IF Len(cmd) > CommandSize
    THEN [log |-> lg, err |-> "command is too long"]
    ELSE IF w.at = "hdr"
    THEN [log |-> lg, err |-> w.err]
    ELSE IF BtcEncodeLen(cmd) > 0
    THEN IF w.at = "payload"
         THEN [log |-> Append(lg, Event("write", cmd, "hdr")), err |-> "nil"]
         ELSE [log |-> lg \o <<Event("write", cmd, "hdr"), Event("write", cmd, "payload")>>,
               err |-> "nil"]
    ELSE [log |-> Append(lg, Event("write", cmd, "hdr")), err |-> "nil"]

\* the log of the stream after the call, and the error returned
WriteMessageWithEncodingN(lg, cmd, w) ==
    IF Len(cmd) > CommandSize
    THEN [log |-> lg, err |-> "command is too long"]
    ELSE IF w.at = "hdr"
    THEN [log |-> lg, err |-> w.err]
    ELSE IF BtcEncodeLen(cmd) > 0
    THEN IF w.at = "payload"
         THEN [log |-> Append(lg, Event("write", cmd, "hdr")), err |-> w.err]
         ELSE [log |-> lg \o <<Event("write", cmd, "hdr"), Event("write", cmd, "payload")>>,
               err |-> "nil"]
    ELSE [log |-> Append(lg, Event("write", cmd, "hdr")), err |-> "nil"]

-----------------------------------------------------------------------------
(* peer.Handshake: the retry loop around handshake *)

\* a variant of the loop condition that is off by one
LoopCondInclusive(k) == k <= HandshakeRetries

\* the loop condition of Handshake
LoopCond(k) == k < HandshakeRetries

\* a variant that keeps the first error instead of the last
KeepFirstErr(old, new) == IF old = "nil" THEN new ELSE old

\* conn, err = handshake(...): the error Handshake holds after an attempt
KeepErr(old, new) == new

NoResult == [done |-> FALSE, conn |-> 0, err |-> "nil", retries |-> 0]

\* a variant that hands the stream of the failed attempt back with the error
ReturnStreamWithError(c, e) ==
    /\ attempts' = Append(attempts, e)
    /\ err' = KeepErr(err, e)
    /\ IF e # "nil"
       THEN /\ i' = i + 1
            /\ conn' = conn
            /\ IF LoopCond(i + 1)
               THEN /\ pc' = "validate"
                    /\ result' = result
               ELSE /\ pc' = "failed"
                    /\ result' = [done |-> TRUE, conn |-> conn, err |-> err',
                                  retries |-> HandshakeRetries]
       ELSE /\ i' = i
            /\ conn' = c
            /\ pc' = "skip"
            /\ result' = [done |-> TRUE, conn |-> c, err |-> "nil", retries |-> 0]

\* handshake returns (c, e) to Handshake: on an error the loop continues or,
\* the retries used up, Handshake returns the failure; on success Handshake
\* returns the stream at once
Return(c, e) ==
    /\ attempts' = Append(attempts, e)
    /\ err' = KeepErr(err, e)
    /\ IF e # "nil"
       THEN /\ i' = i + 1
            /\ conn' = 0
            /\ IF LoopCond(i + 1)
               THEN /\ pc' = "validate"
                    /\ result' = result
               ELSE /\ pc' = "failed"
                    /\ result' = [done |-> TRUE, conn |-> 0, err |-> err',
                                  retries |-> HandshakeRetries]
       ELSE /\ i' = i
            /\ conn' = c
            /\ pc' = "skip"
            /\ result' = [done |-> TRUE, conn |-> c, err |-> "nil", retries |-> 0]

\* the stream of a failed attempt is gone for the peer as well
PeerGone == inbox' = <<>> /\ connErr' = "none" /\ sent' = 0

-----------------------------------------------------------------------------
(* peer.handshake: one attempt, step by step *)

\* a variant that acknowledges before it announces its version
HandshakeMessagesSwapped == <<CmdVerAck, CmdVersion>>

\* the messages handshake writes, in the order it writes them
HandshakeMessages == <<CmdVersion, CmdVerAck>>

\* a variant that reads the peer's version before it acknowledges
AfterVersionWrittenReadsVersion(lg) == Append(lg, Event("read", "version", ""))

\* between the write of the version and the write of the verack handshake
\* does nothing with the stream
AfterVersionWritten(lg) == lg

Validate ==
    /\ pc = "validate"
    /\ IF ~MatchString(peerAddress)
       THEN /\ Return(0, "incorrect peer address format")
            /\ UNCHANGED <<conns, dials>>
       ELSE /\ pc' = "dial"
            /\ UNCHANGED hsVars
    /\ UNCHANGED <<codecVars, argVars, peerVars, readerVars>>

Dial ==
    /\ pc = "dial"
    /\ \E o \in DialOutcomes(peerAddress) :
         /\ dials' = dials + 1
         /\ IF o = "nil"
            THEN /\ conns' = Append(conns, NewConn)
                 /\ conn' = Len(conns) + 1
                 /\ pc' = "deadline"
                 /\ UNCHANGED <<i, err, attempts, result>>
            ELSE /\ Return(0, o)
                 /\ conns' = conns
    /\ PeerGone
    /\ UNCHANGED <<codecVars, argVars, readerVars>>

SetWriteDeadline ==
    /\ pc = "deadline"
    /\ \E ok \in BOOLEAN :
         IF ok
         THEN /\ pc' = "parse"
              /\ UNCHANGED <<hsVars, peerVars>>
         ELSE /\ Return(0, "set write deadline failed")
              /\ UNCHANGED <<conns, dials>>
              /\ PeerGone
    /\ UNCHANGED <<codecVars, argVars, readerVars>>

ParseAddress ==
    /\ pc = "parse"
    /\ LET hp == SplitHostPort(peerAddress)
           pu == ParseUint16(hp.port)
       IN  IF hp.err # "nil"
           THEN /\ conns' = Close(conns, conn)
                /\ Return(0, hp.err)
                /\ PeerGone
                /\ UNCHANGED dials
           ELSE IF pu.err # "nil"
           THEN /\ conns' = Close(conns, conn)
                /\ Return(0, pu.err)
                /\ PeerGone
                /\ UNCHANGED dials
           ELSE /\ pc' = "version"
                /\ UNCHANGED <<hsVars, peerVars>>
    /\ UNCHANGED <<codecVars, argVars, readerVars>>

WriteVersion ==
    /\ pc = "version"
    /\ \E w \in WriteOutcomes(HandshakeMessages[1]) :
         LET r == WriteMessageWithEncodingN(conns[conn].log, HandshakeMessages[1], w) IN
         IF r.err # "nil"
         THEN /\ conns' = Close([conns EXCEPT ![conn].log = r.log], conn)
              /\ Return(0, r.err)
              /\ PeerGone
              /\ UNCHANGED dials
         ELSE /\ conns' = [conns EXCEPT ![conn].log = AfterVersionWritten(r.log)]
              /\ pc' = "verack"
              /\ UNCHANGED <<i, err, conn, dials, attempts, result, peerVars>>
    /\ UNCHANGED <<codecVars, argVars, readerVars>>

WriteVerAck ==
    /\ pc = "verack"
    /\ \E w \in WriteOutcomes(HandshakeMessages[2]) :
         LET r == WriteMessageWithEncodingN(conns[conn].log, HandshakeMessages[2], w) IN
         IF r.err # "nil"
         THEN /\ conns' = Close([conns EXCEPT ![conn].log = r.log], conn)
              /\ Return(0, r.err)
              /\ PeerGone
              /\ UNCHANGED dials
         ELSE /\ conns' = [conns EXCEPT ![conn].log = r.log]
              /\ Return(conn, "nil")
              /\ UNCHANGED <<dials, peerVars>>
    /\ UNCHANGED <<codecVars, argVars, readerVars>>

-----------------------------------------------------------------------------
(* Reading frames: wire.ReadMessageWithEncodingN as the callers see it *)

\* what the peer can put on the stream: a frame with a command the reader
\* does not know, the frames of three known commands, and a frame whose
\* header or checksum is wrong
FrameKinds == {"unknown", "sendaddrv2", "verack", "version", "corrupt"}

ErrUnknownMessage == "ErrUnknownMessage"
ErrInvalidHandshake == "ErrInvalidHandshake"
ErrTimeout == "ack message not received in time"

\* a read can return: a frame is there, or the stream has failed for good
CanRead == inbox # <<>> \/ connErr # "none"

\* the next item of the stream: a frame kind, or the stream's failure
NextItem == IF inbox # <<>> THEN Head(inbox) ELSE connErr

\* the (message, error) a read returns for an item
ReadResult(item) ==
    IF item = "unknown" THEN [msg |-> "nil", err |-> ErrUnknownMessage]
    ELSE IF item = "corrupt" THEN [msg |-> "nil", err |-> "ProtocolError"]
    ELSE IF item \in FrameKinds THEN [msg |-> item, err |-> "nil"]
    ELSE [msg |-> "nil", err |-> item]

\* the read consumes the frame it returns; the log of the stream records
\* what was read
Consume ==
    /\ inbox' = IF inbox # <<>> THEN Tail(inbox) ELSE inbox
    /\ conns' = [conns EXCEPT ![conn].log = Append(@, Event("read", NextItem, ""))]
    /\ UNCHANGED <<connErr, sent>>

\* checker.ReadMessageWithEncodingN, called once between Handshake and
\* WaitToFinishNegotiation: it blocks until a frame or a failure arrives
SkipFrame ==
    /\ pc = "skip"
    /\ CanRead
    /\ LET r == ReadResult(NextItem) IN
         /\ skipErr' = r.err
         /\ pc' = IF r.err = "nil" THEN "wtfn" ELSE "exit"
    /\ Consume
    /\ UNCHANGED <<codecVars, argVars, i, err, conn, dials, attempts, result, rpc, rval,
                   readHist, retHist, wtfnRet>>

-----------------------------------------------------------------------------
(* checker.WaitToFinishNegotiation *)

\* a variant without the case for sendaddrv2
SwitchNoSendAddrV2(msg) ==
    IF msg = "verack" THEN "send_nil"
    ELSE "send_inv"

\* a variant whose default case reports success
SwitchAcceptsAny(msg) ==
    IF msg = "sendaddrv2" THEN "read"
    ELSE "send_nil"

\* the type switch of the reader on the message it read: where it goes next
Switch(msg) ==
    IF msg = "sendaddrv2" THEN "read"
    ELSE IF msg = "verack" THEN "send_nil"
    ELSE "send_inv"

\* a variant that does not send the read error
DispatchDropsReadError(r) ==
    IF r.err = ErrUnknownMessage THEN "read"
    ELSE (IF r.msg = "sendaddrv2" THEN "read"
          ELSE IF r.msg = "verack" THEN "send_nil"
          ELSE "send_inv")

\* what the reader does with the result of readMessage: where it goes next
Dispatch(r) ==
    IF r.err = ErrUnknownMessage THEN "read"
    ELSE IF r.err # "nil" THEN "send_err"
    ELSE Switch(r.msg)

\* a variant that sends nil where the read error belongs
SendValueNilForError(p, e) ==
    IF p = "send_err" THEN "nil"
    ELSE IF p = "send_nil" THEN "nil"
    ELSE ErrInvalidHandshake

\* the value the reader is sending on the channel at position p
SendValue(p, e) ==
    IF p = "send_err" THEN e
    ELSE IF p = "send_nil" THEN "nil"
    ELSE ErrInvalidHandshake

\* where the reader goes once its send has been received: after the read
\* error it falls through to the type switch with the nil message, after
\* any other send it is at the end of the loop body
AfterSend(p) == IF p = "send_err" THEN Switch("nil") ELSE "read"

Sending == {"send_err", "send_nil", "send_inv"}

\* make(chan error) and go func(): the reader starts, the caller selects
StartNegotiation ==
    /\ pc = "wtfn"
    /\ pc' = "select"
    /\ rpc' = "read"
    /\ UNCHANGED <<codecVars, argVars, hsVars, peerVars, skipErr, rval, readHist, retHist, wtfnRet>>

\* one readMessage of the reader and what it decides on its result
ReaderRead ==
    /\ rpc = "read"
    /\ CanRead
    /\ LET r == ReadResult(NextItem) IN
         /\ rpc' = Dispatch(r)
         /\ rval' = IF Dispatch(r) = "send_err" THEN r.err ELSE rval
         /\ readHist' = Append(readHist, NextItem)
    /\ Consume
    /\ UNCHANGED <<codecVars, argVars, pc, i, err, conn, dials, attempts, result, skipErr,
                   retHist, wtfnRet>>

\* case err := <-verack: the caller receives what the reader is sending
Receive ==
    /\ pc = "select"
    /\ rpc \in Sending
    /\ wtfnRet' = SendValue(rpc, rval)
    /\ retHist' = readHist
    /\ pc' = "done"
    /\ rpc' = AfterSend(rpc)
    /\ UNCHANGED <<codecVars, argVars, hsVars, peerVars, skipErr, rval, readHist>>

\* a variant of the select without the timer case
SelectWithoutTimer == FALSE /\ UNCHANGED <<codecVars, argVars, hsVars, peerVars, readerVars, pc>>

\* case <-time.After(1 * time.Second)
Timeout ==
    /\ pc = "select"
    /\ wtfnRet' = ErrTimeout
    /\ retHist' = readHist
    /\ pc' = "done"
    /\ UNCHANGED <<codecVars, argVars, hsVars, peerVars, skipErr, rpc, rval, readHist>>

-----------------------------------------------------------------------------
(* The remote peer *)

StreamUp == conn # 0 /\ conns[conn].open /\ connErr = "none"

PeerSend ==
    /\ StreamUp
    /\ ~Mismatch
    /\ sent < MaxFrames
    /\ \E k \in FrameKinds : inbox' = Append(inbox, k)
    /\ sent' = sent + 1
    /\ UNCHANGED <<codecVars, argVars, pc, hsVars, connErr, readerVars>>

PeerHangup ==
    /\ StreamUp
    /\ \E e \in (IF Mismatch THEN {"reset"} ELSE {"EOF", "reset"}) : connErr' = e
    /\ UNCHANGED <<codecVars, argVars, pc, hsVars, inbox, sent, readerVars>>

-----------------------------------------------------------------------------

\* no call of the codec is under study
CodecIdle ==
    /\ cin = [op |-> "none"]
    /\ cout = <<>>
    /\ cret = "none"
    /\ cval = <<>>
    /\ freeList = <<>>
    /\ callers = <<>>

Init ==
    /\ peerAddress \in Addresses
    /\ network \in Networks
    /\ protocolVersion \in ProtocolVersions
    /\ pc = "validate"
    /\ i = 0
    /\ err = "nil"
    /\ conn = 0
    /\ conns = <<>>
    /\ dials = 0
    /\ attempts = <<>>
    /\ result = NoResult
    /\ inbox = <<>>
    /\ connErr = "none"
    /\ sent = 0
    /\ skipErr = "none"
    /\ rpc = "off"
    /\ rval = "nil"
    /\ readHist = <<>>
    /\ retHist = <<>>
    /\ wtfnRet = "none"
    /\ CodecIdle

Next ==
    \/ Validate
    \/ Dial
    \/ SetWriteDeadline
    \/ ParseAddress
    \/ WriteVersion
    \/ WriteVerAck
    \/ SkipFrame
    \/ StartNegotiation
    \/ ReaderRead
    \/ Receive
    \/ Timeout
    \/ PeerSend
    \/ PeerHangup

Spec == Init /\ [][Next]_vars

-----------------------------------------------------------------------------
(* Vocabulary of the properties *)

Succeeded == result.done /\ result.err = "nil"
Failed == result.done /\ result.err # "nil"

FullWrites == <<Event("write", CmdVersion, "hdr"),
                Event("write", CmdVersion, "payload"),
                Event("write", CmdVerAck, "hdr")>>

HasRead(lg, item) == \E k \in 1..Len(lg) : lg[k] = Event("read", item, "")

NoReads(lg) == \A k \in 1..Len(lg) : lg[k].op # "read"

\* a syntactically well-formed IPv4-literal host:port pair
WellFormed(addr) ==
    LET hp == SplitHostPort(addr) IN
    /\ hp.err = "nil"
    /\ IsIPv4(hp.host)
    /\ ParseUint16(hp.port).err = "nil"

Skippable == {"unknown", "sendaddrv2"}

\* WaitToFinishNegotiation returned what its reader sent, not the timeout
ViaChannel == wtfnRet \notin {"none", ErrTimeout}

\* the first item of a read history that is not skipped, "none" if all are
RECURSIVE FirstTerminal(_)
FirstTerminal(h) ==
    IF h = <<>> THEN "none"
    ELSE IF Head(h) \in Skippable THEN FirstTerminal(Tail(h))
    ELSE Head(h)

-----------------------------------------------------------------------------
(* C1 *)

\* C1 as stated: Handshake returns a stream only after the peer's verack
\* frame has been read from that stream.
C1_SuccessOnlyAfterVerackRead ==
    Succeeded => HasRead(conns[result.conn].log, "verack")

\* C1 as amended: Handshake returns a stream only after the complete version
\* frame and then the verack frame have been written to that stream, and it
\* has read nothing from it (so a silent peer does not prevent success).
C1_SuccessOnlyAfterBothWritten ==
    (Succeeded /\ pc = "skip") => conns[result.conn].log = FullWrites

\* Handshake has returned success although the peer has sent nothing
C1_Witness ==
    /\ Succeeded
    /\ pc = "skip"
    /\ sent = 0
    /\ connErr = "none"

-----------------------------------------------------------------------------
(* C2 *)

\* C2: Handshake makes at most HandshakeRetries attempts, makes no attempt
\* after one that succeeded and returns success at it, and returns failure
\* only after exactly HandshakeRetries failed attempts (with connect
\* timeouts: after that many dials).
C2_AtMostThreeAttempts ==
    /\ Len(attempts) <= HandshakeRetries
    /\ \A k \in 1..(Len(attempts) - 1) : attempts[k] # "nil"
    /\ (attempts # <<>> /\ attempts[Len(attempts)] = "nil") => Succeeded
    /\ Succeeded => (attempts # <<>> /\ attempts[Len(attempts)] = "nil")
    /\ Failed => /\ Len(attempts) = HandshakeRetries
                 /\ \A k \in 1..Len(attempts) : attempts[k] # "nil"
    /\ (Failed /\ \A k \in 1..Len(attempts) : attempts[k] = "i/o timeout")
          => dials = HandshakeRetries

\* every attempt timed out in the dial and Handshake has returned failure
C2_Witness ==
    /\ Failed
    /\ attempts = <<"i/o timeout", "i/o timeout", "i/o timeout">>
    /\ dials = HandshakeRetries

-----------------------------------------------------------------------------
(* C3 *)

\* C3: when all attempts fail, the error Handshake returns carries the cause
\* of the last attempt and the number of attempts made, and the stream is nil.
C3_LastCauseReported ==
    Failed => /\ result.err = attempts[Len(attempts)]
              /\ result.retries = Len(attempts)
              /\ result.conn = 0

\* the attempts failed for different reasons, the last one is reported
C3_Witness ==
    /\ Failed
    /\ attempts[1] = "connection refused"
    /\ attempts[Len(attempts)] = "i/o timeout"
    /\ result.err = "i/o timeout"

-----------------------------------------------------------------------------
(* C4 *)

\* C4: no stream of a failed attempt is open once that attempt has returned:
\* the only stream that may be open is the one of the attempt in progress or
\* the one Handshake returned.
C4_FailedStreamsClosed ==
    \A k \in 1..Len(conns) : conns[k].open => k = conn

-----------------------------------------------------------------------------
(* C5 *)

\* C5: for an address that is no well-formed IPv4 host:port pair every
\* attempt fails with the invalid-address error and nothing is dialled.
C5_MalformedNeverDialled ==
    ~WellFormed(peerAddress) =>
        /\ dials = 0
        /\ conns = <<>>
        /\ \A k \in 1..Len(attempts) : attempts[k] = "incorrect peer address format"

-----------------------------------------------------------------------------
(* C6 *)

\* C6: on every stream the writes are the first events, in the order
\* version header, version payload, verack header: the verack is written
\* right after the version, and nothing is read from the stream before or
\* between them.
C6_VersionThenVerack ==
    \A k \in 1..Len(conns) :
        \A j \in 1..Len(conns[k].log) :
            conns[k].log[j].op = "write" =>
                /\ j <= Len(FullWrites)
                /\ conns[k].log[j] = FullWrites[j]

\* both frames are written while frames of the peer wait unread
C6_Witness ==
    /\ pc = "skip"
    /\ conns[conn].log = FullWrites
    /\ inbox # <<>>

-----------------------------------------------------------------------------
(* C7 *)

\* C7: until Handshake has returned (and up to the first read of its caller)
\* nothing has been read from any stream and every frame the peer sent is
\* still unread; against a peer of another network or protocol version the
\* read after Handshake fails.
C7_HandshakeReadsNothing ==
    /\ pc \in {"validate", "dial", "deadline", "parse", "version", "verack",
               "skip", "failed"}
          => /\ \A k \in 1..Len(conns) : NoReads(conns[k].log)
             /\ Len(inbox) = sent
    /\ (Mismatch /\ skipErr # "none") => skipErr # "nil"

\* Handshake succeeded against a mismatching peer and the next read failed
C7_Witness ==
    /\ Succeeded
    /\ Mismatch
    /\ skipErr = "reset"

-----------------------------------------------------------------------------
(* C8 *)

\* C8: WaitToFinishNegotiation never returns because of a skipped frame
\* (unknown command or sendaddrv2): when it returns what its reader sent,
\* every frame read before the last one was skipped and the last one is not
\* a skipped kind; and when that last frame is a verack it returns nil.
C8_SkippedThenVerackSucceeds ==
    ViaChannel =>
        /\ retHist # <<>>
        /\ \A k \in 1..(Len(retHist) - 1) : retHist[k] \in Skippable
        /\ retHist[Len(retHist)] \notin Skippable
        /\ retHist[Len(retHist)] = "verack" => wtfnRet = "nil"

\* a frame was skipped and the verack behind it accepted
C8_Witness ==
    /\ wtfnRet = "nil"
    /\ Len(retHist) = 2
    /\ retHist[1] \in Skippable
    /\ retHist[2] = "verack"

-----------------------------------------------------------------------------
(* C9 *)

\* C9: when the first frame that is not skipped is a recognized message
\* other than verack, WaitToFinishNegotiation (unless the timer wins)
\* returns ErrInvalidHandshake, and it does so at that frame: nothing after
\* it has been read when it returns.
C9_UnexpectedMessageFails ==
    (ViaChannel /\ FirstTerminal(retHist) = "version") =>
        /\ wtfnRet = ErrInvalidHandshake
        /\ retHist[Len(retHist)] = "version"
        /\ \A k \in 1..(Len(retHist) - 1) : retHist[k] \in Skippable

\* the version frame made it fail while a verack frame was waiting behind it
C9_Witness ==
    /\ wtfnRet = ErrInvalidHandshake
    /\ retHist = <<"version">>
    /\ inbox # <<>>
    /\ Head(inbox) = "verack"

-----------------------------------------------------------------------------
(* C10 *)

ReadErrorItems == {"corrupt", "EOF", "reset"}

\* C10: when the first read that is not skipped fails, WaitToFinishNegotiation
\* (unless the timer wins) returns exactly the error of that read.
C10_ReadErrorReturned ==
    (ViaChannel /\ FirstTerminal(retHist) \in ReadErrorItems) =>
        /\ wtfnRet = ReadResult(FirstTerminal(retHist)).err
        /\ wtfnRet \notin {"nil", ErrInvalidHandshake}

\* a corrupt frame after a skipped one: its error is what is returned
C10_Witness ==
    /\ wtfnRet = "ProtocolError"
    /\ retHist = <<"sendaddrv2", "corrupt">>

-----------------------------------------------------------------------------
(* The negotiation alone: the program from the return of a successful      *)
(* Handshake on, with the scheduling the runtime guarantees: a goroutine   *)
(* that can run does run, a receive that can complete does complete, and   *)
(* the timer of the select fires.  The peer owes nothing.                  *)

NegInit ==
    /\ peerAddress = AddrGood
    /\ network \in Networks
    /\ protocolVersion \in ProtocolVersions
    /\ pc = "skip"
    /\ i = 0
    /\ err = "nil"
    /\ conn = 1
    /\ conns = <<[open |-> TRUE, log |-> FullWrites]>>
    /\ dials = 1
    /\ attempts = <<"nil">>
    /\ result = [done |-> TRUE, conn |-> 1, err |-> "nil", retries |-> 0]
    /\ inbox = <<>>
    /\ connErr = "none"
    /\ sent = 0
    /\ skipErr = "none"
    /\ rpc = "off"
    /\ rval = "nil"
    /\ readHist = <<>>
    /\ retHist = <<>>
    /\ wtfnRet = "none"
    /\ CodecIdle

NegNext ==
    \/ SkipFrame
    \/ StartNegotiation
    \/ ReaderRead
    \/ Receive
    \/ Timeout
    \/ PeerSend
    \/ PeerHangup

NegSpec ==
    /\ NegInit
    /\ [][NegNext]_vars
    /\ WF_vars(SkipFrame)
    /\ WF_vars(StartNegotiation)
    /\ WF_vars(ReaderRead)
    /\ WF_vars(Receive)
    /\ WF_vars(Timeout)

\* the frames the peer has sent on the current stream, read or not
PeerFrames ==
    LET rd == SelectSeq(conns[conn].log,
                        LAMBDA e : e.op = "read" /\ e.cmd \in FrameKinds)
    IN  [k \in 1..Len(rd) |-> rd[k].cmd] \o inbox

-----------------------------------------------------------------------------
(* C11 *)

\* C11: WaitToFinishNegotiation always returns: once its caller waits in the
\* select it eventually has a result, whatever the peer does; and when it
\* returns although its reader has read nothing but skipped frames, the
\* result is the timeout failure.
C11_NegotiationAlwaysReturns ==
    /\ (pc = "select") ~> (pc = "done")
    /\ [](( wtfnRet # "none" /\ FirstTerminal(retHist) = "none")
             => wtfnRet = ErrTimeout)

\* the peer sent only frames that are skipped and the timeout was returned
C11_Witness ==
    /\ wtfnRet = ErrTimeout
    /\ retHist = <<"unknown", "sendaddrv2">>
    /\ inbox = <<>>
    /\ connErr = "none"

-----------------------------------------------------------------------------
(* C12 *)

\* C12: the frame skip after Handshake does not hang: it eventually returns
\* (with a timeout failure when the stream produces no frame).
C12_SkipFrameReturns ==
    (pc = "skip") ~> (pc # "skip")

-----------------------------------------------------------------------------
(* C13 *)

\* C13: against a peer that replies solely with one verack frame the flow
\* Handshake, frame skip, WaitToFinishNegotiation ends in success.
C13_SoleVerackSucceeds ==
    (pc = "done" /\ PeerFrames = <<"verack">> /\ connErr = "none")
        => wtfnRet = "nil"

-----------------------------------------------------------------------------
(* C14 *)

\* C14: WaitToFinishNegotiation returns nil only when its reader has read a
\* verack frame from the stream.
C14_NilOnlyAfterVerack ==
    wtfnRet = "nil" =>
        /\ \E k \in 1..Len(retHist) : retHist[k] = "verack"
        /\ HasRead(conns[conn].log, "verack")

\* success was reported and the verack is the last frame the reader read
C14_Witness ==
    /\ pc = "done"
    /\ wtfnRet = "nil"
    /\ retHist = <<"verack">>

-----------------------------------------------------------------------------
(* C15 *)

\* C15 (the case of success): once WaitToFinishNegotiation has returned nil
\* and the stream is the caller's again, its reader has no read outstanding
\* on the stream and starts none.
C15_NoReaderReadAfterSuccess ==
    (pc = "done" /\ wtfnRet = "nil") => rpc # "read"

-----------------------------------------------------------------------------
(* The wire codec, byte by byte.                                           *)
(*                                                                         *)
(* An unsigned integer of the program is the tuple of its 16-bit limbs,    *)
(* least significant limb first: 1 limb for a uint16, 2 for a uint32 or    *)
(* int32 (two's complement), 4 for a uint64 or int64.  A byte is a number  *)
(* in 0..255, a string or buffer a tuple of bytes.                         *)

\* bounds of the codec's inputs
MaxPayload == 3
MaxFailAt == 2

MessageHeaderSize == 24

Limb == 256 * 256

U16(n) == <<n % Limb>>
U32(n) == <<n % Limb, (n \div Limb) % Limb>>
U64(n) == <<n % Limb, (n \div Limb) % Limb, 0, 0>>

Zeros(n) == [k \in 1..n |-> 0]

Reverse(b) == [k \in 1..Len(b) |-> b[Len(b) + 1 - k]]

\* a < b for two integers of the same number of limbs
RECURSIVE LessU(_, _)
LessU(a, b) ==
    IF a = <<>> THEN FALSE
    ELSE IF a[Len(a)] # b[Len(b)] THEN a[Len(a)] < b[Len(b)]
    ELSE LessU(SubSeq(a, 1, Len(a) - 1), SubSeq(b, 1, Len(b) - 1))

LeqU(a, b) == a = b \/ LessU(a, b)

\* the conversions uintN(val): the low limbs
Truncate(v, limbs) == SubSeq(v, 1, limbs)

\* binary.LittleEndian.PutUintN and binary.BigEndian.PutUintN
RECURSIVE PutLittleEndian(_)
PutLittleEndian(v) ==
    IF v = <<>> THEN <<>>
    ELSE <<Head(v) % 256, Head(v) \div 256>> \o PutLittleEndian(Tail(v))

PutBigEndian(v) == Reverse(PutLittleEndian(v))

\* a writer: the bytes it has taken, the number of Write calls made on it,
\* the call that fails (0: none does), and the error it has returned
NewWriter(failAt) == [out |-> <<>>, calls |-> 0, failAt |-> failAt, err |-> "nil"]

\* w.Write(b), made only while every earlier call has succeeded
Write(w, b) ==
    IF w.err # "nil" THEN w
    ELSE IF w.calls + 1 = w.failAt
    THEN [w EXCEPT !.calls = @ + 1, !.err = "write failed"]
    ELSE [w EXCEPT !.calls = @ + 1, !.out = @ \o b]

\* BinaryFreeList.PutUint8 / PutUint16 / PutUint32 / PutUint64
PutUint8(w, val) == Write(w, <<val>>)
PutUint16(w, order, val) ==
    Write(w, IF order = "LE" THEN PutLittleEndian(val) ELSE PutBigEndian(val))
PutUint32(w, order, val) ==
    Write(w, IF order = "LE" THEN PutLittleEndian(val) ELSE PutBigEndian(val))
PutUint64(w, order, val) ==
    Write(w, IF order = "LE" THEN PutLittleEndian(val) ELSE PutBigEndian(val))

\* a variant that takes what one Read call gives, as r.Read would
ReadOnce(r, n) ==
    IF r = <<>> THEN [buf |-> Zeros(n), err |-> "EOF"]
    ELSE [buf |-> [k \in 1..n |-> IF k <= Len(r) THEN r[k] ELSE 0], err |-> "nil"]

\* io.ReadFull(r, buf) with len(buf) = n, on a reader that has the bytes r
\* and then ends: n bytes, or EOF when there is none, or ErrUnexpectedEOF
ReadFull(r, n) ==
    IF Len(r) >= n THEN [buf |-> SubSeq(r, 1, n), err |-> "nil"]
    ELSE IF r = <<>> THEN [buf |-> Zeros(n), err |-> "EOF"]
    ELSE [buf |-> Zeros(n), err |-> "unexpected EOF"]

\* binary.LittleEndian.UintN and binary.BigEndian.UintN
LittleEndianUint(b) == [k \in 1..(Len(b) \div 2) |-> b[2 * k - 1] + 256 * b[2 * k]]

BigEndianUint(b) == LittleEndianUint(Reverse(b))

\* BinaryFreeList.Uint8 / Uint16 / Uint32 / Uint64: (rv, err)
Uint8(r) ==
    LET x == ReadFull(r, 1) IN
    IF x.err # "nil" THEN [rv |-> 0, err |-> x.err]
    ELSE [rv |-> x.buf[1], err |-> "nil"]
Uint16(r, order) ==
    LET x == ReadFull(r, 2) IN
    IF x.err # "nil" THEN [rv |-> U16(0), err |-> x.err]
    ELSE [rv |-> IF order = "LE" THEN LittleEndianUint(x.buf) ELSE BigEndianUint(x.buf),
          err |-> "nil"]
Uint32(r, order) ==
    LET x == ReadFull(r, 4) IN
    IF x.err # "nil" THEN [rv |-> U32(0), err |-> x.err]
    ELSE [rv |-> IF order = "LE" THEN LittleEndianUint(x.buf) ELSE BigEndianUint(x.buf),
          err |-> "nil"]
Uint64(r, order) ==
    LET x == ReadFull(r, 8) IN
    IF x.err # "nil" THEN [rv |-> U64(0), err |-> x.err]
    ELSE [rv |-> IF order = "LE" THEN LittleEndianUint(x.buf) ELSE BigEndianUint(x.buf),
          err |-> "nil"]

\* writeElement: the type switch on the element, [type, val]
writeElement(w, el) ==
    IF el.type \in {"int32", "uint32", "InvType", "BitcoinNet"}
    THEN PutUint32(w, "LE", el.val)
    ELSE IF el.type \in {"int64", "uint64", "ServiceFlag"}
    THEN PutUint64(w, "LE", el.val)
    ELSE IF el.type = "bool"
    THEN PutUint8(w, IF el.val THEN 1 ELSE 0)
    ELSE IF el.type \in {"BloomUpdateType", "RejectCode"}
    THEN PutUint8(w, el.val)
    ELSE Write(w, el.val)

Element(type, val) == [type |-> type, val |-> val]

\* writeElements: one writeElement after the other, up to the first error
RECURSIVE writeElements(_, _)
writeElements(w, els) ==
    IF els = <<>> THEN w
    ELSE writeElements(writeElement(w, Head(els)), Tail(els))

\* a variant with the first threshold off by one
WriteVarIntBufInclusive(w, val) ==
    IF LeqU(val, U64(253))
    THEN Write(w, <<val[1] % 256>>)
    ELSE IF LeqU(val, <<Limb - 1, 0, 0, 0>>)
    THEN Write(w, <<253>> \o PutLittleEndian(Truncate(val, 1)))
    ELSE IF LeqU(val, <<Limb - 1, Limb - 1, 0, 0>>)
    THEN Write(w, <<254>> \o PutLittleEndian(Truncate(val, 2)))
    ELSE Write(Write(w, <<255>>), PutLittleEndian(val))

\* WriteVarIntBuf
WriteVarIntBuf(w, val) ==
    IF LessU(val, U64(253))
    THEN Write(w, <<val[1] % 256>>)
    ELSE IF LeqU(val, <<Limb - 1, 0, 0, 0>>)
    THEN Write(w, <<253>> \o PutLittleEndian(Truncate(val, 1)))
    ELSE IF LeqU(val, <<Limb - 1, Limb - 1, 0, 0>>)
    THEN Write(w, <<254>> \o PutLittleEndian(Truncate(val, 2)))
    ELSE Write(Write(w, <<255>>), PutLittleEndian(val))

\* writeVarStringBuf, WriteVarString: the length as varint, then the bytes
writeVarStringBuf(w, str) == Write(WriteVarIntBuf(w, U64(Len(str))), str)

WriteVarString(w, str) == writeVarStringBuf(w, str)

\* net.IP.To16 of an IPv4 address: the IPv4-mapped IPv6 form
To16(ip) == Zeros(10) \o <<255, 255>> \o ip

\* writeNetAddressBuf: services, 16 bytes of IP (zero for a nil IP), the
\* port in big endian; the argument ts is not looked at
writeNetAddressBuf(w, na, ts) ==
    LET w1 == Write(w, PutLittleEndian(na.Services))
        w2 == Write(w1, IF na.IP # <<>> THEN To16(na.IP) ELSE Zeros(16))
    IN  Write(w2, PutBigEndian(na.Port))

writeNetAddress(w, na, ts) == writeNetAddressBuf(w, na, ts)

-----------------------------------------------------------------------------
(* Messages and message.WriteMessageWithEncodingN, byte by byte *)

\* the commands as bytes: "version", "verack"
CmdVersionBytes == <<118, 101, 114, 115, 105, 111, 110>>
CmdVerAckBytes == <<118, 101, 114, 97, 99, 107>>

\* "/btcwire:0.5.0/"
DefaultUserAgentBytes == <<47, 98, 116, 99, 119, 105, 114, 101, 58, 48, 46, 53, 46, 48, 47>>

\* MainNet 0xd9b4bef9 and SimNet 0x12141c16
MainNet == <<48889, 55732>>
SimNet == <<7190, 4628>>

RECURSIVE Sum(_)
Sum(b) ==
    IF b = <<>> THEN 0
    ELSE IF Len(b) = 1 THEN b[1]
    ELSE LET h == Len(b) \div 2
         IN  Sum(SubSeq(b, 1, h)) + Sum(SubSeq(b, h + 1, Len(b)))

\* chainhash.DoubleHashB(payload)[0:4]: the hash itself is outside the
\* model; four bytes that depend on nothing but the payload stand for it
DoubleHashB4(payload) ==
    LET s == Sum(payload)
    IN  <<(Len(payload) + 93) % 256, s % 256, (s \div 256) % 256,
          (3 * s + Len(payload)) % 256>>

\* Message.Command()
Command(msg) ==
    IF msg.kind = "version" THEN CmdVersionBytes
    ELSE IF msg.kind = "verack" THEN CmdVerAckBytes
    ELSE msg.command

\* Message.BtcEncode(w, ...): MsgVersion writes its fields, MsgVerAck
\* nothing; any other implementation of Message writes its payload or fails
BtcEncode(w, msg) ==
    IF msg.kind = "version"
    THEN LET w1 == writeElements(w, <<Element("int32", msg.ProtocolVersion),
                                       Element("ServiceFlag", msg.Services),
                                       Element("int64", msg.Timestamp)>>)
             w2 == writeNetAddress(w1, msg.AddrYou, FALSE)
             w3 == writeNetAddress(w2, msg.AddrMe, FALSE)
             w4 == writeElement(w3, Element("uint64", msg.Nonce))
             w5 == WriteVarString(w4, msg.UserAgent)
         IN  writeElement(w5, Element("int32", msg.LastBlock))
    ELSE IF msg.kind = "verack"
    THEN w
    ELSE IF msg.encErr # "nil"
    THEN [w EXCEPT !.err = msg.encErr]
    ELSE Write(w, msg.payload)

\* a variant of the size check that is off by one
CommandTooLongOffByOne(cmd) == Len(cmd) > CommandSize + 1

\* len(cmd) > CommandSize
CommandTooLong(cmd) == Len(cmd) > CommandSize

\* a variant that does not pad the command
CommandUnpadded(cmd) == SubSeq(cmd, 1, IF Len(cmd) < CommandSize THEN Len(cmd) ELSE CommandSize)

\* var command [CommandSize]byte; copy(command[:], []byte(cmd))
CommandArray(cmd) ==
    [k \in 1..CommandSize |-> IF k <= Len(cmd) THEN cmd[k] ELSE 0]

\* WriteMessageWithEncodingN on the writer w
WriteMessageBytes(w, msg, btcnet) ==
    LET cmd == Command(msg) IN
    IF CommandTooLong(cmd)
    THEN [w EXCEPT !.err = "command is too long"]
    ELSE LET bw == BtcEncode(NewWriter(0), msg) IN
         IF bw.err # "nil"
         THEN [w EXCEPT !.err = bw.err]
         ELSE LET payload == bw.out
                  hw == writeElements(NewWriter(0),
                            <<Element("BitcoinNet", btcnet),
                              Element("[CommandSize]uint8", CommandArray(cmd)),
                              Element("uint32", U32(Len(payload))),
                              Element("[4]byte", DoubleHashB4(payload))>>)
                  w1 == Write(w, hw.out)
              IN  IF w1.err # "nil" THEN w1
                  ELSE IF Len(payload) > 0 THEN Write(w1, payload)
                  ELSE w1

-----------------------------------------------------------------------------
(* The inputs of the codec *)

VarIntLimbs == {0, 1, 252, 253, Limb - 1}

U64Values == [1..4 -> VarIntLimbs]

IPs == {<<>>, <<1, 2, 3, 4>>, <<127, 0, 0, 1>>}

NetAddresses ==
    [Timestamp : {U32(0), <<1617, 26214>>},
     Services : {U64(0), <<1033, 0, 0, 0>>},
     IP : IPs,
     Port : {U16(80), U16(18555)}]

\* common.NetAddress{}
ZeroNetAddress == [Timestamp |-> U32(0), Services |-> U64(0), IP |-> <<>>, Port |-> U16(0)]

UserAgents == {<<>>, DefaultUserAgentBytes, [k \in 1..253 |-> 97]}

\* the version messages handshake builds, and some with other field values
VersionMessages ==
    [kind : {"version"},
     ProtocolVersion : {U32(ProtocolVersion), U32(123)},
     Services : {U64(0)},
     Timestamp : {<<1617, 26214, 0, 0>>},
     AddrYou : {na \in NetAddresses : na.Services = U64(0)},
     AddrMe : {ZeroNetAddress},
     Nonce : {U64(1)},
     UserAgent : UserAgents,
     LastBlock : {U32(0), U32(700000)},
     DisableRelayTx : BOOLEAN]

Payloads == UNION {[1..n -> {0, 255}] : n \in 0..MaxPayload}

\* implementations of Message with a command of 0, 1, 12 and 13 bytes
OtherMessages ==
    [kind : {"other"},
     command : {[k \in 1..n |-> 97] : n \in {0, 1, CommandSize, CommandSize + 1}},
     payload : Payloads,
     encErr : {"nil", "encode failed"}]

Messages ==
    {m \in VersionMessages : m.UserAgent = DefaultUserAgentBytes /\ ~m.DisableRelayTx}
    \cup {[kind |-> "verack"]}
    \cup OtherMessages

WriterFaults == 0..MaxFailAt

-----------------------------------------------------------------------------
(* The codec's operations, each called once on a fresh writer *)

Called(call, w) ==
    /\ cin' = call
    /\ cout' = w.out
    /\ cret' = w.err
    /\ UNCHANGED <<cval, freeList, callers>>

CallWriteVarIntBuf ==
    /\ cin.op = "none"
    /\ UNCHANGED <<argVars, pc, hsVars, peerVars, readerVars>>
    /\ \E val \in U64Values, f \in WriterFaults :
           Called([op |-> "WriteVarIntBuf", val |-> val, failAt |-> f],
                  WriteVarIntBuf(NewWriter(f), val))

CallWriteNetAddress ==
    /\ cin.op = "none"
    /\ UNCHANGED <<argVars, pc, hsVars, peerVars, readerVars>>
    /\ \E na \in NetAddresses, ts \in BOOLEAN, f \in WriterFaults :
           Called([op |-> "writeNetAddress", na |-> na, ts |-> ts, failAt |-> f],
                  writeNetAddress(NewWriter(f), na, ts))

CallBtcEncode ==
    /\ cin.op = "none"
    /\ UNCHANGED <<argVars, pc, hsVars, peerVars, readerVars>>
    /\ \E msg \in VersionMessages, f \in WriterFaults :
           Called([op |-> "BtcEncode", msg |-> msg, failAt |-> f],
                  BtcEncode(NewWriter(f), msg))

CallWriteMessage ==
    /\ cin.op = "none"
    /\ UNCHANGED <<argVars, pc, hsVars, peerVars, readerVars>>
    /\ \E msg \in Messages, net \in {MainNet, SimNet}, f \in WriterFaults :
           Called([op |-> "WriteMessageWithEncodingN", msg |-> msg, btcnet |-> net,
                   failAt |-> f],
                  WriteMessageBytes(NewWriter(f), msg, net))

ByteOrders == {"LE", "BE"}

Widths == {8, 16, 32, 64}

Limbs16 == {0, 258, Limb - 1}

\* the values of a width: a number for 8 bits, limbs for the others
UintValues(width) ==
    IF width = 8 THEN {0, 1, 128, 255} ELSE [1..(width \div 16) -> Limbs16]

\* the PutUintN and UintN of a width
PutUint(w, width, order, val) ==
    IF width = 8 THEN PutUint8(w, val)
    ELSE IF width = 16 THEN PutUint16(w, order, val)
    ELSE IF width = 32 THEN PutUint32(w, order, val)
    ELSE PutUint64(w, order, val)

Uint(r, width, order) ==
    IF width = 8 THEN Uint8(r)
    ELSE IF width = 16 THEN Uint16(r, order)
    ELSE IF width = 32 THEN Uint32(r, order)
    ELSE Uint64(r, order)

CallPutUint ==
    /\ cin.op = "none"
    /\ UNCHANGED <<argVars, pc, hsVars, peerVars, readerVars>>
    /\ \E width \in Widths, order \in ByteOrders, f \in WriterFaults :
         \E val \in UintValues(width) :
           Called([op |-> "PutUint", width |-> width, order |-> order, val |-> val,
                   failAt |-> f],
                  PutUint(NewWriter(f), width, order, val))

\* UintN on a reader that has the first avail bytes PutUintN wrote
CallUint ==
    /\ cin.op = "PutUint"
    /\ UNCHANGED <<argVars, pc, hsVars, peerVars, readerVars>>
    /\ \E width \in Widths, order \in ByteOrders, avail \in 0..Len(cout) :
         LET x == Uint(SubSeq(cout, 1, avail), width, order) IN
           /\ cin' = [op |-> "Uint", width |-> width, order |-> order,
                      avail |-> avail, put |-> cin, putErr |-> cret]
           /\ cval' = x.rv
           /\ cret' = x.err
           /\ UNCHANGED <<cout, freeList, callers>>

CodecInit ==
    /\ peerAddress = AddrGood
    /\ network = PeerNet
    /\ protocolVersion = ProtocolVersion
    /\ pc = "validate"
    /\ i = 0
    /\ err = "nil"
    /\ conn = 0
    /\ conns = <<>>
    /\ dials = 0
    /\ attempts = <<>>
    /\ result = NoResult
    /\ inbox = <<>>
    /\ connErr = "none"
    /\ sent = 0
    /\ skipErr = "none"
    /\ rpc = "off"
    /\ rval = "nil"
    /\ readHist = <<>>
    /\ retHist = <<>>
    /\ wtfnRet = "none"
    /\ CodecIdle

CodecNext ==
    \/ CallWriteVarIntBuf
    \/ CallWriteNetAddress
    \/ CallBtcEncode
    \/ CallWriteMessage
    \/ CallPutUint
    \/ CallUint

CodecSpec == CodecInit /\ [][CodecNext]_vars

-----------------------------------------------------------------------------
(* Claims about the codec, checked under CodecSpec *)

\* the operation op was called, and returned without an error
Encoded(op) == cin.op = op /\ cret = "nil"

\* the value of at most eight little-endian bytes, as four limbs
FromLittleEndian(b) ==
    [k \in 1..4 |-> IF 2 * k <= Len(b) THEN b[2 * k - 1] + 256 * b[2 * k] ELSE 0]

FromBigEndian(b) == FromLittleEndian(Reverse(b))

\* val fits in the given number of limbs
Fits(val, limbs) == \A k \in 1..4 : k > limbs => val[k] = 0

\* the width the marker byte announces, and the value read at that width
MarkerWidth(b) ==
    IF b[1] = 255 THEN 8 ELSE IF b[1] = 254 THEN 4 ELSE IF b[1] = 253 THEN 2 ELSE 0

ReadVarInt(b) ==
    IF MarkerWidth(b) = 0 THEN U64(b[1])
    ELSE FromLittleEndian(SubSeq(b, 2, 1 + MarkerWidth(b)))

\* C19: WriteVarIntBuf writes 1 byte for a value below 0xFD, 0xFD and 2
\* little-endian bytes up to 0xFFFF, 0xFE and 4 bytes up to 0xFFFFFFFF, 0xFF
\* and 8 bytes above that, and reading the marker and then the width it
\* announces gives the value back
C19_VarIntWidthAndRoundTrip ==
    Encoded("WriteVarIntBuf") =>
        /\ Len(cout) = (IF Fits(cin.val, 1) /\ cin.val[1] < 253 THEN 1
                        ELSE IF Fits(cin.val, 1) THEN 3
                        ELSE IF Fits(cin.val, 2) THEN 5
                        ELSE 9)
        /\ Len(cout) = 1 + MarkerWidth(cout)
        /\ ReadVarInt(cout) = cin.val

\* 0x10000, the first value of five bytes, was written
C19_Witness ==
    /\ Encoded("WriteVarIntBuf")
    /\ cin.val = <<0, 1, 0, 0>>
    /\ cout = <<254, 0, 0, 1, 0>>

\* rec is the net address record of na without a timestamp: services
\* little-endian, the 16-byte IP (zero when there is none), the port big-endian
AddressRecord(rec, na) ==
    /\ Len(rec) = 26
    /\ FromLittleEndian(SubSeq(rec, 1, 8)) = na.Services
    /\ SubSeq(rec, 9, 24) = (IF na.IP = <<>> THEN Zeros(16)
                             ELSE Zeros(10) \o <<255, 255>> \o na.IP)
    /\ FromBigEndian(SubSeq(rec, 25, 26)) = na.Port \o <<0, 0, 0>>

\* the last n bytes of b
Last(b, n) == SubSeq(b, Len(b) - n + 1, Len(b))

\* C20: writeNetAddress writes a leading 4-byte timestamp exactly when ts
\* is true, and only services, IP and port when ts is false
C20_TimestampWhenAsked ==
    Encoded("writeNetAddress") =>
        /\ Len(cout) = (IF cin.ts THEN 30 ELSE 26)
        /\ AddressRecord(Last(cout, 26), cin.na)
        /\ cin.ts => FromLittleEndian(SubSeq(cout, 1, 4)) = cin.na.Timestamp \o <<0, 0>>

\* the bytes a var string of n bytes takes
VarStringSize(n) == (IF n < 253 THEN 1 ELSE 3) + n

\* b holds the version fields up to the last block, in the order of the
\* wire format
VersionFields(b, msg) ==
    LET n == Len(msg.UserAgent)
        v == VarStringSize(n) - n
    IN  /\ Len(b) = 80 + VarStringSize(n) + 4
        /\ FromLittleEndian(SubSeq(b, 1, 4)) = msg.ProtocolVersion \o <<0, 0>>
        /\ FromLittleEndian(SubSeq(b, 5, 12)) = msg.Services
        /\ FromLittleEndian(SubSeq(b, 13, 20)) = msg.Timestamp
        /\ AddressRecord(SubSeq(b, 21, 46), msg.AddrYou)
        /\ AddressRecord(SubSeq(b, 47, 72), msg.AddrMe)
        /\ FromLittleEndian(SubSeq(b, 73, 80)) = msg.Nonce
        /\ ReadVarInt(SubSeq(b, 81, 80 + v)) = U64(n)
        /\ SubSeq(b, 81 + v, 80 + v + n) = msg.UserAgent
        /\ FromLittleEndian(Last(b, 4)) = msg.LastBlock \o <<0, 0>>

\* C18: the encoded version payload is the fields protocol version,
\* services, timestamp, the two address records, nonce, user agent and last
\* block, and after them one byte for the relay flag
C18_VersionEndsWithRelayFlag ==
    Encoded("BtcEncode") =>
        /\ VersionFields(SubSeq(cout, 1, Len(cout) - 1), cin.msg)
        /\ cout[Len(cout)] \in {0, 1}

\* the payload of msg: what its BtcEncode writes
PayloadOf(msg) == BtcEncode(NewWriter(0), msg).out

\* WriteMessageWithEncodingN was called with nothing in its way: a command
\* that fits, a payload that encodes, a stream that takes every write
Writable == 
    /\ cin.op = "WriteMessageWithEncodingN"
    /\ Len(Command(cin.msg)) <= 12
    /\ BtcEncode(NewWriter(0), cin.msg).err = "nil"
    /\ cin.failAt = 0

\* C16: for a command of at most 12 bytes WriteMessageWithEncodingN writes
\* 24 header bytes (network id, command zero-padded to 12 bytes, payload
\* length, checksum) and then the payload verbatim, 24 + len(payload) bytes
\* in all, and for verack exactly the 24 header bytes
C16_HeaderThenPayload ==
    /\ Writable => cret = "nil"
    /\ Encoded("WriteMessageWithEncodingN") =>
        LET cmd == Command(cin.msg)
            payload == PayloadOf(cin.msg)
        IN  /\ Len(cmd) <= 12
            /\ Len(cout) = 24 + Len(payload)
            /\ FromLittleEndian(SubSeq(cout, 1, 4)) = cin.btcnet \o <<0, 0>>
            /\ \A k \in 1..12 : cout[4 + k] = (IF k <= Len(cmd) THEN cmd[k] ELSE 0)
            /\ FromLittleEndian(SubSeq(cout, 17, 20)) = U64(Len(payload))
            /\ SubSeq(cout, 21, 24) = DoubleHashB4(payload)
            /\ SubSeq(cout, 25, Len(cout)) = payload
            /\ cin.msg.kind = "verack" => Len(cout) = 24

\* a message with a one-byte command and a two-byte payload was written
C16_Witness ==
    /\ Encoded("WriteMessageWithEncodingN")
    /\ cin.msg.kind = "other"
    /\ Len(cin.msg.command) = 1
    /\ cin.msg.payload = <<255, 0>>
    /\ Len(cout) = 26

\* C17: WriteMessageWithEncodingN fails with the command-too-long error for
\* every command longer than 12 bytes, and then, as when the payload fails
\* to encode, no byte has been written
C17_TooLongWritesNothing ==
    cin.op = "WriteMessageWithEncodingN" =>
        /\ Len(Command(cin.msg)) > 12 => (cret = "command is too long" /\ cout = <<>>)
        /\ (Len(Command(cin.msg)) <= 12 /\ BtcEncode(NewWriter(0), cin.msg).err # "nil")
               => (cret = BtcEncode(NewWriter(0), cin.msg).err /\ cout = <<>>)

\* a message with a 13-byte command that would otherwise have been written
C17_Witness ==
    /\ cin.op = "WriteMessageWithEncodingN"
    /\ Len(Command(cin.msg)) = 13
    /\ cin.msg.encErr = "nil"
    /\ cin.failAt = 0
    /\ cret = "command is too long"

-----------------------------------------------------------------------------
(* Claims about what Handshake and handshake return *)

\* a (stream, error) pair is a stream that is open with a nil error, or no
\* stream with an error
Outcome(cs, c, e) ==
    \/ c # 0 /\ e = "nil" /\ cs[c].open
    \/ c = 0 /\ e # "nil"

\* C24: every return of handshake and of Handshake is an open stream with a
\* nil error or no stream with an error: never a stream together with an
\* error, never a closed stream as a success
C24_StreamXorError ==
    [][/\ attempts' # attempts => Outcome(conns', conn', attempts'[Len(attempts')])
       /\ (result'.done /\ ~result.done) => Outcome(conns', result'.conn, result'.err)]_vars

\* Handshake has returned the stream of its second attempt, the first
\* attempt having failed after it had a stream
C24_Witness ==
    /\ result.done
    /\ Len(attempts) = 2
    /\ attempts[1] \in WriteErrors
    /\ result.conn = 2
    /\ result.err = "nil"
    /\ conns[2].open
    /\ ~conns[1].open

\* the version frame is on the log in full before position k
VersionWrittenBefore(lg, k) ==
    \E a \in 1..(k - 1), b \in 1..(k - 1) :
        /\ a < b
        /\ lg[a] = Event("write", "version", "hdr")
        /\ lg[b] = Event("write", "version", "payload")

\* C25: when the write of the version frame fails the attempt fails with
\* that error and no verack is written on its stream; a verack is written
\* on a stream only after the whole version frame was written on it
C25_NoVerackWithoutVersion ==
    /\ [](\A c \in 1..Len(conns) : \A k \in 1..Len(conns[c].log) :
             conns[c].log[k] = Event("write", "verack", "hdr")
                 => VersionWrittenBefore(conns[c].log, k))
    /\ [][(pc = "version" /\ pc' \notin {"version", "verack"}) =>
             /\ Len(attempts') = Len(attempts) + 1
             /\ attempts'[Len(attempts')] \in WriteErrors
             /\ \A k \in 1..Len(conns'[conn].log) :
                    conns'[conn].log[k].cmd # "verack"]_vars

\* the payload write of the version frame has failed on the first stream
C25_Witness ==
    /\ Len(conns) >= 1
    /\ conns[1].log = <<Event("write", "version", "hdr")>>
    /\ ~conns[1].open
    /\ attempts # <<>>
    /\ attempts[1] \in WriteErrors

-----------------------------------------------------------------------------
(* Claim about the reader goroutine of WaitToFinishNegotiation *)

\* the reader is in a readMessage call, or at a send on the channel
ReaderActive == rpc = "read" \/ rpc \in Sending

\* C23: once WaitToFinishNegotiation has returned its background reader
\* eventually stops: from some point on it is neither in a read of the
\* stream nor blocked on sending a result on the channel
C23_ReaderEventuallyStops == (pc = "done") ~> [](~ReaderActive)

-----------------------------------------------------------------------------
(* Claim about UintN and PutUintN *)

\* UintN has read, with the width and the byte order of the PutUintN
\* before it, the bytes that call wrote without an error
ReadBack ==
    /\ cin.op = "Uint"
    /\ cin.putErr = "nil"
    /\ cin.width = cin.put.width
    /\ cin.order = cin.put.order

\* C22: for each width and byte order UintN returns the value PutUintN
\* wrote with that byte order, 0 and the maximum included, and a short
\* read returns an error and no value
C22_UintRoundTrip ==
    ReadBack =>
        IF cin.avail = cin.width \div 8
        THEN cret = "nil" /\ cval = cin.put.val
        ELSE cret # "nil" /\ cval = (IF cin.width = 8 THEN 0 ELSE Zeros(cin.width \div 16))

\* the largest 64-bit value has come back in big-endian order
C22_Witness ==
    /\ ReadBack
    /\ cin.width = 64
    /\ cin.order = "BE"
    /\ cout = <<255, 255, 255, 255, 255, 255, 255, 255>>
    /\ cret = "nil"
    /\ cval = <<Limb - 1, Limb - 1, Limb - 1, Limb - 1>>

-----------------------------------------------------------------------------
(* common.BinaryFreeList: Borrow and Return on binarySerializer *)

MaxCallers == 3

binaryFreeListMaxItems == 1024

\* a byte slice, as far as the free list is concerned: its length and
\* the capacity of its array
Slice(len, cap) == [len |-> len, cap |-> cap]

NilSlice == Slice(0, 0)

\* make([]byte, 8)
Make8 == Slice(8, 8)

\* buf[:n]
Reslice(buf, n) == [buf EXCEPT !.len = n]

\* Borrow: the select takes the oldest buffer of the list when there is
\* one and makes a buffer otherwise; buf[:8] is returned
Borrow(l) ==
    IF l # <<>>
    THEN [buf |-> Reslice(Head(l), 8), list |-> Tail(l), from |-> "list"]
    ELSE [buf |-> Reslice(Make8, 8), list |-> l, from |-> "make"]

\* a variant of Return that puts the buffer on the list whatever its size
ReturnBufferUnbounded(l, buf) == Append(l, buf)

\* Return: the select puts the buffer on the list when the channel has
\* room and lets it go otherwise
ReturnBuffer(l, buf) ==
    IF Len(l) < binaryFreeListMaxItems THEN Append(l, buf) ELSE l

\* the lengths the codec's functions cut a borrowed buffer to
SliceLengths == {1, 2, 4, 8}

\* a codec call: where it is, the buffer it holds, where Borrow took it from
Caller(at, buf, from) == [at |-> at, buf |-> buf, from |-> from]

IdleCaller == Caller("idle", NilSlice, "none")

FreeListUnchanged ==
    UNCHANGED <<argVars, pc, hsVars, peerVars, readerVars, cin, cout, cret, cval>>

\* buf := l.Borrow()
BorrowStep(c) ==
    /\ callers[c].at = "idle"
    /\ LET b == Borrow(freeList) IN
         /\ freeList' = b.list
         /\ callers' = [callers EXCEPT ![c] = Caller("borrowed", b.buf, b.from)]
    /\ FreeListUnchanged

\* buf = buf[:n], and the read or write of the call
UseStep(c) ==
    /\ callers[c].at = "borrowed"
    /\ \E n \in SliceLengths :
         callers' = [callers EXCEPT ![c].at = "using", ![c].buf = Reslice(@, n)]
    /\ freeList' = freeList
    /\ FreeListUnchanged

\* defer l.Return(buf)
ReturnStep(c) ==
    /\ callers[c].at = "using"
    /\ freeList' = ReturnBuffer(freeList, callers[c].buf)
    /\ callers' = [callers EXCEPT ![c].at = "returned"]
    /\ FreeListUnchanged

\* the sizes of the list at the start: empty, one buffer, one short of
\* full, full
FreeListSizes == {0, 1, binaryFreeListMaxItems - 1, binaryFreeListMaxItems}

\* the state some earlier calls have left: n buffers on the list, as the
\* calls returned them, and either no call under way or MaxCallers calls
\* that found the list empty
FreeListInit ==
    /\ peerAddress = AddrGood
    /\ network = PeerNet
    /\ protocolVersion = ProtocolVersion
    /\ pc = "validate"
    /\ i = 0
    /\ err = "nil"
    /\ conn = 0
    /\ conns = <<>>
    /\ dials = 0
    /\ attempts = <<>>
    /\ result = NoResult
    /\ inbox = <<>>
    /\ connErr = "none"
    /\ sent = 0
    /\ skipErr = "none"
    /\ rpc = "off"
    /\ rval = "nil"
    /\ readHist = <<>>
    /\ retHist = <<>>
    /\ wtfnRet = "none"
    /\ cin = [op |-> "none"]
    /\ cout = <<>>
    /\ cret = "none"
    /\ cval = <<>>
    /\ \E n \in FreeListSizes, len \in {1, 8} :
         freeList = [k \in 1..n |-> Slice(len, 8)]
    /\ \E held \in {IdleCaller, Caller("borrowed", Make8, "make")} :
         callers = [c \in 1..MaxCallers |-> held]

FreeListNext ==
    \E c \in 1..MaxCallers :
        \/ BorrowStep(c)
        \/ UseStep(c)
        \/ ReturnStep(c)

FreeListSpec == FreeListInit /\ [][FreeListNext]_vars

-----------------------------------------------------------------------------
(* Claim about the free list *)

\* caller c goes from position a to position b in this step
Moves(c, a, b) == callers[c].at = a /\ callers'[c].at = b

\* C21: Borrow never blocks and yields a buffer of length 8, the oldest
\* buffer of the list when the list is not empty and a new one otherwise;
\* Return never blocks; the list never holds more than 1024 buffers, and a
\* buffer returned to a full list is dropped
C21_FreeListBounded ==
    /\ [](/\ Len(freeList) <= 1024
          /\ \A c \in 1..MaxCallers :
               /\ callers[c].at = "idle" => ENABLED BorrowStep(c)
               /\ callers[c].at = "using" => ENABLED ReturnStep(c)
               /\ callers[c].at = "borrowed" => callers[c].buf.len = 8)
    /\ [][\A c \in 1..MaxCallers :
            /\ Moves(c, "idle", "borrowed") =>
                 IF freeList # <<>>
                 THEN /\ freeList' = Tail(freeList)
                      /\ callers'[c].buf = [Head(freeList) EXCEPT !.len = 8]
                 ELSE /\ freeList' = <<>>
                      /\ callers'[c].buf = Make8
            /\ Moves(c, "using", "returned") =>
                 IF Len(freeList) = 1024
                 THEN freeList' = freeList
                 ELSE freeList' = Append(freeList, callers[c].buf)]_vars

\* the list is full after three calls have returned buffers they had made:
\* it held at most 1024 - 3 buffers before, or a buffer was dropped, and the
\* lists at the start that can get here are the two largest
C21_Witness ==
    /\ Len(freeList) = 1024
    /\ \A c \in 1..3 : callers[c].at = "returned" /\ callers[c].from = "make"
    /\ freeList[1024].len = 2

====
